---- MODULE Spec2Model ----
(***************************************************************************)
(* Model of src/main.mjs: the generator that walks the "unprefixed" opcode *)
(* table and prints one decoder test line per entry.                       *)
(*                                                                         *)
(* A JavaScript string is a sequence of one-character strings, so that     *)
(* toLowerCase, replaceAll, trim and join are computed character by        *)
(* character.  A JavaScript object is a record that has exactly the fields *)
(* the JSON document gave it: a missing field is missing from DOMAIN.      *)
(***************************************************************************)
EXTENDS Integers, Sequences, FiniteSets

VARIABLES
    opcodes,        \* Object.entries(opcodes['unprefixed']): <<[opcode, entry]>>
    i,              \* index of the entry the outer map visits next
    pc,             \* "map" | "done" | "TypeError"
    stdout,         \* the lines console.log has written
    testNames,      \* locals of the latest completed callback invocation
    machineCode,
    rendered,       \* the array operands.map(...) returned, before join
    assembly,
    testName,
    machine_cycles

vars == <<opcodes, i, pc, stdout, testNames, machineCode, rendered,
          assembly, testName, machine_cycles>>

----------------------------------------------------------------------------
(* Bounds of the explored inputs.                                          *)

MaxEntries == 2      \* entries in a table of the whole-run specification
MaxOperands == 2     \* operands of one entry
MaxCycles == 9       \* largest value of cycles[0]

----------------------------------------------------------------------------
(* JavaScript values.                                                      *)

\* The value undefined: distinct from every string (no string holds a
\* character of more than one letter).
Undefined == <<"undefined">>

Has(obj, f) == f \in DOMAIN obj

\* Property read obj.f: undefined when the object has no such field.
Get(obj, f) == IF Has(obj, f) THEN obj[f] ELSE Undefined

\* ToBoolean(obj.f) for a field that holds a boolean when present.
Truthy(obj, f) == Has(obj, f) /\ obj[f] = TRUE

\* The string a template literal or a string concatenation makes of v.
StringOf(v) == IF v = Undefined THEN <<"u","n","d","e","f","i","n","e","d">> ELSE v

\* Array.prototype.join: undefined elements count as the empty string.
RECURSIVE Join(_, _)
Join(arr, sep) ==
    IF arr = <<>> THEN <<>>
    ELSE LET head == IF arr[1] = Undefined THEN <<>> ELSE arr[1]
         IN  IF Len(arr) = 1 THEN head
             ELSE head \o sep \o Join(Tail(arr), sep)

Upper == <<"A","B","C","D","E","F","G","H","I","J","K","L","M",
           "N","O","P","Q","R","S","T","U","V","W","X","Y","Z">>
Lower == <<"a","b","c","d","e","f","g","h","i","j","k","l","m",
           "n","o","p","q","r","s","t","u","v","w","x","y","z">>

LowerChar(c) ==
    IF \E k \in 1..Len(Upper) : Upper[k] = c
    THEN Lower[CHOOSE k \in 1..Len(Upper) : Upper[k] = c]
    ELSE c

\* String.prototype.toLowerCase
toLowerCase(s) == [k \in 1..Len(s) |-> LowerChar(s[k])]

\* String.prototype.replaceAll(c, '')
RECURSIVE replaceAllEmpty(_, _)
replaceAllEmpty(s, c) ==
    IF s = <<>> THEN <<>>
    ELSE (IF s[1] = c THEN <<>> ELSE <<s[1]>>) \o replaceAllEmpty(Tail(s), c)

WhiteSpace == {" ", "\t", "\n", "\r"}

RECURSIVE trimStart(_)
trimStart(s) ==
    IF s # <<>> /\ s[1] \in WhiteSpace THEN trimStart(Tail(s)) ELSE s

RECURSIVE trimEnd(_)
trimEnd(s) ==
    IF s # <<>> /\ s[Len(s)] \in WhiteSpace
    THEN trimEnd(SubSeq(s, 1, Len(s) - 1)) ELSE s

\* String.prototype.trim
trim(s) == trimEnd(trimStart(s))

Digits == <<"0","1","2","3","4","5","6","7","8","9">>

RECURSIVE NatToString(_)
NatToString(n) ==
    IF n < 10 THEN <<Digits[n + 1]>>
    ELSE NatToString(n \div 10) \o <<Digits[(n % 10) + 1]>>

----------------------------------------------------------------------------
(* String literals of the program.                                         *)

Str_n16 == <<"n","1","6">>
Str_a16 == <<"a","1","6">>
Str_n8 == <<"n","8">>
Str_a8 == <<"a","8">>
Str_e8 == <<"e","8">>
Str_0x34 == <<"0","x","3","4">>
Str_0x12 == <<"0","x","1","2">>
Str_0x7B == <<"0","x","7","B">>
Str_0x1234 == <<"0","x","1","2","3","4">>
Str_123 == <<"1","2","3">>
Str_increment == <<"_","i","n","c","r","e","m","e","n","t">>
Str_decrement == <<"_","d","e","c","r","e","m","e","n","t">>
Str_NaN == <<"N","a","N">>
Indent == [k \in 1..12 |-> " "]

----------------------------------------------------------------------------
(* The inner callback, operands.map(({name, immediate, increment,          *)
(* decrement}) => ...), one operand at a time.                             *)

\* value after the increment / decrement branch.
Suffixed(operand) ==
    LET name == Get(operand, "name")
    IN  IF Truthy(operand, "increment") THEN StringOf(name) \o <<"+">>
        ELSE IF Truthy(operand, "decrement") THEN StringOf(name) \o <<"-">>
        ELSE name

\* The branch testing decrement before increment.
NamePartDecrementFirst(operand) ==
    LET name == Get(operand, "name")
    IN  IF Truthy(operand, "decrement") THEN StringOf(name) \o Str_decrement
        ELSE IF Truthy(operand, "increment") THEN StringOf(name) \o Str_increment
        ELSE name

\* What the branch pushes to testNames.
NamePart(operand) ==
    LET name == Get(operand, "name")
    IN  IF Truthy(operand, "increment") THEN StringOf(name) \o Str_increment
        ELSE IF Truthy(operand, "decrement") THEN StringOf(name) \o Str_decrement
        ELSE name

\* The switch with the break of the 16-bit case lost: it falls through.
PlaceholderBytesFallThrough(name) ==
    IF name \in {Str_n16, Str_a16} THEN <<Str_0x34, Str_0x12, Str_0x12>>
    ELSE IF name \in {Str_n8, Str_a8} THEN <<Str_0x12>>
    ELSE IF name = Str_e8 THEN <<Str_0x7B>>
    ELSE <<>>

\* The switch pushing the high byte first.
PlaceholderBytesBigEndian(name) ==
    IF name \in {Str_n16, Str_a16} THEN <<Str_0x12, Str_0x34>>
    ELSE IF name \in {Str_n8, Str_a8} THEN <<Str_0x12>>
    ELSE IF name = Str_e8 THEN <<Str_0x7B>>
    ELSE <<>>

\* What switch (name) pushes to machineCode.
PlaceholderBytes(name) ==
    IF name \in {Str_n16, Str_a16} THEN <<Str_0x34, Str_0x12>>
    ELSE IF name \in {Str_n8, Str_a8} THEN <<Str_0x12>>
    ELSE IF name = Str_e8 THEN <<Str_0x7B>>
    ELSE <<>>

\* The switch putting the literal in front of what the branch appended.
SubstitutedKeepingSuffix(name, value) ==
    LET suffix == IF value # Undefined /\ value # <<>> /\ value[Len(value)] \in {"+", "-"}
                  THEN <<value[Len(value)]>> ELSE <<>>
    IN  IF name \in {Str_n16, Str_a16} THEN Str_0x1234 \o suffix
        ELSE IF name \in {Str_n8, Str_a8} THEN Str_0x12 \o suffix
        ELSE IF name = Str_e8 THEN Str_123 \o suffix
        ELSE value

\* value after switch (name).
Substituted(name, value) ==
    IF name \in {Str_n16, Str_a16} THEN Str_0x1234
    ELSE IF name \in {Str_n8, Str_a8} THEN Str_0x12
    ELSE IF name = Str_e8 THEN Str_123
    ELSE value

\* The return with the two arms of the conditional exchanged.
TokenArmsExchanged(operand) ==
    LET value == Substituted(Get(operand, "name"), Suffixed(operand))
    IN  IF Truthy(operand, "immediate") THEN <<"(">> \o StringOf(value) \o <<")">>
        ELSE value

\* The callback's return value.
Token(operand) ==
    LET value == Substituted(Get(operand, "name"), Suffixed(operand))
    IN  IF Truthy(operand, "immediate") THEN value
        ELSE <<"(">> \o StringOf(value) \o <<")">>

RECURSIVE Flatten(_)
Flatten(seqs) ==
    IF seqs = <<>> THEN <<>> ELSE seqs[1] \o Flatten(Tail(seqs))

----------------------------------------------------------------------------
(* The outer callback, per table entry.                                    *)

TestNamesOf(entry) ==
    <<Get(entry, "mnemonic")>>
        \o [k \in 1..Len(entry.operands) |-> NamePart(entry.operands[k])]

MachineCodeOf(opcode, entry) ==
    <<opcode>>
        \o Flatten([k \in 1..Len(entry.operands) |->
                        PlaceholderBytes(Get(entry.operands[k], "name"))])

RenderedOf(entry) ==
    [k \in 1..Len(entry.operands) |-> Token(entry.operands[k])]

\* The template literal without the trim.
AssemblyUntrimmed(entry) ==
    StringOf(Get(entry, "mnemonic")) \o <<" ">>
        \o Join(RenderedOf(entry), <<",", " ">>)

AssemblyOf(entry) ==
    trim(StringOf(Get(entry, "mnemonic")) \o <<" ">>
            \o Join(RenderedOf(entry), <<",", " ">>))

\* The name without the replaceAll.
TestNameLowercased(entry) ==
    toLowerCase(Join(TestNamesOf(entry), <<"_">>))

TestNameOf(entry) ==
    replaceAllEmpty(toLowerCase(Join(TestNamesOf(entry), <<"_">>)), "$")

\* A number as the exact fraction num/den in lowest terms; NaN is 0/0.
NaN == [num |-> 0, den |-> 0]

\* The quotient truncated to an integer.
MachineCyclesTruncated(cycles) ==
    IF cycles = <<>> THEN NaN ELSE [num |-> cycles[1] \div 4, den |-> 1]

\* cycles[0] / 4: a division by a power of two is exact in binary floating
\* point, so the quotient is the fraction itself.
MachineCyclesOf(cycles) ==
    IF cycles = <<>> THEN NaN
    ELSE LET c == cycles[1]
         IN  IF c % 4 = 0 THEN [num |-> c \div 4, den |-> 1]
             ELSE IF c % 2 = 0 THEN [num |-> c \div 2, den |-> 2]
             ELSE [num |-> c, den |-> 4]

\* Number::toString of such a fraction.
NumberToString(x) ==
    IF x.den = 0 THEN Str_NaN
    ELSE IF x.den = 1 THEN NatToString(x.num)
    ELSE NatToString(x.num \div x.den) \o <<".">>
            \o (IF x.den = 2 THEN <<"5">>
                ELSE IF x.num % 4 = 1 THEN <<"2","5">> ELSE <<"7","5">>)

\* The template literal handed to console.log.
Line(name, code, asm, cyc) ==
    Indent \o name \o <<":", " ">> \o Join(code, <<",", " ">>)
        \o <<" ", "=", ">", " ", "\"">> \o asm \o <<"\"", ",", " ">>
        \o NumberToString(cyc) \o <<",">>

LineOf(opcode, entry) ==
    Line(TestNameOf(entry), MachineCodeOf(opcode, entry), AssemblyOf(entry),
         MachineCyclesOf(entry.cycles))

\* operands.map and cycles[0] read a property of undefined when the field
\* is missing: a TypeError nothing catches.
Throws(entry) == ~Has(entry, "operands") \/ ~Has(entry, "cycles")

----------------------------------------------------------------------------
(* The explored opcode tables.                                             *)

Str_HL == <<"H","L">>
Str_RST08 == <<"$","0","8">>
Str_LD == <<"L","D">>
Str_RST == <<"R","S","T">>
Str_JpDollar == <<"J","$","p">>

Names == {Str_n16, Str_a16, Str_n8, Str_a8, Str_e8, Str_HL, Str_RST08}
Mnemonics == {Str_LD, Str_RST, Str_JpDollar}

\* Operands carrying all four fields.
FullOperands ==
    {[name |-> n, immediate |-> im, increment |-> inc, decrement |-> dec] :
        n \in Names, im \in BOOLEAN, inc \in BOOLEAN, dec \in BOOLEAN}

\* Operands lacking fields (the table itself omits increment and decrement
\* on most operands).
SparseOperands ==
    { [name |-> Str_HL, immediate |-> FALSE],
      [name |-> Str_n8, immediate |-> TRUE],
      [name |-> Str_a16],
      [name |-> Str_HL, immediate |-> TRUE, decrement |-> TRUE],
      [immediate |-> TRUE, increment |-> FALSE, decrement |-> FALSE],
      [immediate |-> FALSE, increment |-> TRUE, decrement |-> FALSE] }

SeqsUpTo(S, n) == UNION {[1..m -> S] : m \in 0..n}

\* The operands that are combined into longer lists: every name in both
\* addressing forms, and every flag combination on a register, a 16-bit and
\* an 8-bit placeholder.
CoreOperands ==
    {o \in FullOperands :
        \/ o.name \in {Str_HL, Str_n16, Str_e8}
        \/ (~o.increment /\ ~o.decrement)}

OperandLists ==
    SeqsUpTo(CoreOperands, MaxOperands)
        \cup {<<o>> : o \in FullOperands}
        \cup SeqsUpTo(SparseOperands, MaxOperands)

\* LD (HL), n8 and RST $08 as the table spells them, and LD (HL+), A-like
\* forms with every field present.
FewOperandLists ==
    { <<>>,
      << [name |-> Str_HL, immediate |-> FALSE, increment |-> FALSE, decrement |-> FALSE],
         [name |-> Str_n8, immediate |-> TRUE] >>,
      << [name |-> Str_RST08, immediate |-> TRUE] >>,
      << [name |-> Str_HL, immediate |-> TRUE, increment |-> TRUE, decrement |-> FALSE] >> }

CycleLists ==
    {<<>>} \cup {<<c>> : c \in 0..MaxCycles}
           \cup {<<c, d>> : c \in 0..MaxCycles, d \in 0..MaxCycles}

Entries ==
    {[mnemonic |-> Str_LD, operands |-> ops, cycles |-> <<8>>] : ops \in OperandLists}
    \cup {[mnemonic |-> m, operands |-> ops, cycles |-> c] :
            m \in Mnemonics, ops \in FewOperandLists, c \in CycleLists}
    \cup {[operands |-> ops, cycles |-> <<8>>] : ops \in FewOperandLists}
    \cup {[mnemonic |-> m, cycles |-> <<8>>] : m \in Mnemonics}
    \cup {[mnemonic |-> m, operands |-> ops] : m \in Mnemonics, ops \in FewOperandLists}

\* The entries of the whole-run tables: three with every field present,
\* one as the table spells LD (HL), n8, and four that lack a field.
RunEntries ==
    { [mnemonic |-> Str_LD, operands |-> <<>>, cycles |-> <<4>>],
      [mnemonic |-> Str_LD,
       operands |-> << [name |-> Str_a16, immediate |-> FALSE, increment |-> FALSE, decrement |-> FALSE],
                       [name |-> Str_HL, immediate |-> TRUE, increment |-> TRUE, decrement |-> FALSE] >>,
       cycles |-> <<16>>],
      [mnemonic |-> Str_RST,
       operands |-> << [name |-> Str_RST08, immediate |-> TRUE, increment |-> FALSE, decrement |-> FALSE] >>,
       cycles |-> <<1>>],
      [mnemonic |-> Str_LD,
       operands |-> << [name |-> Str_HL, immediate |-> FALSE, increment |-> FALSE, decrement |-> FALSE],
                       [name |-> Str_n8, immediate |-> TRUE] >>,
       cycles |-> <<8>>],
      [mnemonic |-> Str_LD, operands |-> << [name |-> Str_a16] >>, cycles |-> <<>>],
      [operands |-> << [immediate |-> TRUE] >>, cycles |-> <<8>>],
      [mnemonic |-> Str_LD, cycles |-> <<8>>],
      [mnemonic |-> Str_LD, operands |-> <<>>] }

\* The key of the k-th entry: "0xF1", "0xF2", ...
KeyAt(k) == <<"0", "x", "F">> \o NatToString(k)

TableOf(f) == [k \in DOMAIN f |-> [opcode |-> KeyAt(k), entry |-> f[k]]]

Tables == {TableOf(f) : f \in SeqsUpTo(RunEntries, MaxEntries)}

----------------------------------------------------------------------------
(* The run.                                                                *)

InitLocals ==
    /\ i = 1
    /\ pc = "map"
    /\ stdout = <<>>
    /\ testNames = <<>>
    /\ machineCode = <<>>
    /\ rendered = <<>>
    /\ assembly = <<>>
    /\ testName = <<>>
    /\ machine_cycles = NaN

\* The table JSON.parse returned, before the first callback.
Init ==
    /\ opcodes \in Tables
    /\ InitLocals

\* A table of one entry, over the wide set of entries.
InitEntry ==
    /\ opcodes \in {TableOf(<<e>>) : e \in Entries}
    /\ InitLocals

\* The callback collecting its lines newest first.
CallbackNewestFirst ==
    /\ pc = "map"
    /\ i <= Len(opcodes)
    /\ LET opcode == opcodes[i].opcode
           entry == opcodes[i].entry
       IN  /\ ~Throws(entry)
           /\ testNames' = TestNamesOf(entry)
           /\ machineCode' = MachineCodeOf(opcode, entry)
           /\ rendered' = RenderedOf(entry)
           /\ assembly' = AssemblyOf(entry)
           /\ testName' = TestNameOf(entry)
           /\ machine_cycles' = MachineCyclesOf(entry.cycles)
           /\ stdout' = <<LineOf(opcode, entry)>> \o stdout
    /\ i' = i + 1
    /\ UNCHANGED <<opcodes, pc>>

\* One invocation of the outer callback that returns.
Callback ==
    /\ pc = "map"
    /\ i <= Len(opcodes)
    /\ LET opcode == opcodes[i].opcode
           entry == opcodes[i].entry
       IN  /\ ~Throws(entry)
           /\ testNames' = TestNamesOf(entry)
           /\ machineCode' = MachineCodeOf(opcode, entry)
           /\ rendered' = RenderedOf(entry)
           /\ assembly' = AssemblyOf(entry)
           /\ testName' = TestNameOf(entry)
           /\ machine_cycles' = MachineCyclesOf(entry.cycles)
           /\ stdout' = Append(stdout, LineOf(opcode, entry))
    /\ i' = i + 1
    /\ UNCHANGED <<opcodes, pc>>

\* The callback wrapped in a try/catch that goes on with the next entry.
ThrowAndContinue ==
    /\ pc = "map"
    /\ i <= Len(opcodes)
    /\ Throws(opcodes[i].entry)
    /\ i' = i + 1
    /\ UNCHANGED <<opcodes, pc, stdout, testNames, machineCode, rendered,
                   assembly, testName, machine_cycles>>

\* One invocation that throws: the exception leaves map and ends the run
\* before console.log is reached.
Throw ==
    /\ pc = "map"
    /\ i <= Len(opcodes)
    /\ Throws(opcodes[i].entry)
    /\ pc' = "TypeError"
    /\ UNCHANGED <<opcodes, i, stdout, testNames, machineCode, rendered,
                   assembly, testName, machine_cycles>>

\* map has visited every entry.
Finish ==
    /\ pc = "map"
    /\ i > Len(opcodes)
    /\ pc' = "done"
    /\ UNCHANGED <<opcodes, i, stdout, testNames, machineCode, rendered,
                   assembly, testName, machine_cycles>>

Next == Callback \/ Throw \/ Finish

Spec == Init /\ [][Next]_vars

SpecEntry == InitEntry /\ [][Next]_vars

----------------------------------------------------------------------------
(* Vocabulary of the properties.  The locals describe the entry the latest *)
(* completed callback was given, opcodes[i - 1].                           *)

Ran == i > 1
LastOpcode == opcodes[i - 1].opcode
LastEntry == opcodes[i - 1].entry
LastOperands == LastEntry.operands

WideNames == {<<"n","1","6">>, <<"a","1","6">>}
ByteNames == {<<"n","8">>, <<"a","8">>, <<"e","8">>}

NameOf(operand) == IF "name" \in DOMAIN operand THEN operand.name ELSE <<>>
IsSet(operand, f) == f \in DOMAIN operand /\ operand[f] = TRUE

CountNamed(ops, S) == Cardinality({k \in 1..Len(ops) : NameOf(ops[k]) \in S})

Contains(s, sub) ==
    \E j \in 1..(Len(s) - Len(sub) + 1) : SubSeq(s, j, j + Len(sub) - 1) = sub

Occurrences(s, c) == Cardinality({k \in 1..Len(s) : s[k] = c})

\* C1 as claimed: machineCode.length is 1 plus the number of operands named
\* n16, a16, n8, a8 or e8.
C1_LengthCountsOperands ==
    Ran => Len(machineCode) = 1 + CountNamed(LastOperands, WideNames \cup ByteNames)

\* C1 as the code has it: machineCode.length is 1, plus 2 for every operand
\* named n16 or a16, plus 1 for every operand named n8, a8 or e8.
C1_LengthCountsBytes ==
    Ran => Len(machineCode) = 1 + 2 * CountNamed(LastOperands, WideNames)
                                + CountNamed(LastOperands, ByteNames)

C1_Witness ==
    /\ Ran
    /\ CountNamed(LastOperands, WideNames) >= 1
    /\ CountNamed(LastOperands, ByteNames) >= 1
    /\ Len(machineCode) = 4

ExpectedBytes(operand) ==
    CASE NameOf(operand) \in WideNames -> << <<"0","x","3","4">>, <<"0","x","1","2">> >>
      [] NameOf(operand) \in {<<"n","8">>, <<"a","8">>} -> << <<"0","x","1","2">> >>
      [] NameOf(operand) = <<"e","8">> -> << <<"0","x","7","B">> >>
      [] OTHER -> <<>>

RECURSIVE ExpectedCode(_)
ExpectedCode(ops) ==
    IF ops = <<>> THEN <<>> ELSE ExpectedBytes(ops[1]) \o ExpectedCode(Tail(ops))

\* C2: machineCode is the opcode key as the table spells it, followed by
\* each operand's bytes in operand order: 0x34 0x12 for n16 and a16, 0x12
\* for n8 and a8, 0x7B for e8, nothing for any other name, whatever the
\* operand's immediate, increment and decrement flags.
C2_MachineCodeBytes ==
    Ran => machineCode = <<LastOpcode>> \o ExpectedCode(LastOperands)

C2_Witness ==
    /\ Ran
    /\ Len(LastOperands) = 2
    /\ NameOf(LastOperands[1]) = <<"e","8">>
    /\ IsSet(LastOperands[1], "increment")
    /\ NameOf(LastOperands[2]) = <<"n","1","6">>
    /\ ~IsSet(LastOperands[2], "immediate")
    /\ machineCode = << <<"0","x","F","1">>, <<"0","x","7","B">>,
                        <<"0","x","3","4">>, <<"0","x","1","2">> >>

----------------------------------------------------------------------------
(* The whole run.                                                          *)

EntryAt(k) == opcodes[k].entry

OperandFields == {"name", "immediate", "increment", "decrement"}

\* Some expected field of the entry or of one of its operands is missing.
MissesAField(entry) ==
    \/ ~({"mnemonic", "operands", "cycles"} \subseteq DOMAIN entry)
    \/ /\ "operands" \in DOMAIN entry
       /\ \E k \in 1..Len(entry.operands) :
            ~(OperandFields \subseteq DOMAIN entry.operands[k])

\* The operand list or the cycle list is missing.
MissesAList(entry) ==
    "operands" \notin DOMAIN entry \/ "cycles" \notin DOMAIN entry

\* The first entry that lacks a list, or one past the table.
FirstWithoutList ==
    IF \E k \in 1..Len(opcodes) : MissesAList(EntryAt(k))
    THEN CHOOSE k \in 1..Len(opcodes) :
            /\ MissesAList(EntryAt(k))
            /\ \A j \in 1..(k - 1) : ~MissesAList(EntryAt(j))
    ELSE Len(opcodes) + 1

\* C3 as claimed: an entry that lacks any expected field (its own or an
\* operand's) gets no output line, and neither does any later entry.
C3_AnyMissingFieldStops ==
    \A k \in 1..Len(opcodes) : MissesAField(EntryAt(k)) => Len(stdout) < k

\* C3 as the code has it: an entry that lacks operands or cycles ends the
\* run with a TypeError, with no line for it or for any later entry and the
\* earlier lines as they were; an entry that lacks only mnemonic or operand
\* fields gets its line like any other.
C3_MissingListStops ==
    /\ Len(stdout) = i - 1
    /\ i <= FirstWithoutList
    /\ \A k \in 1..Len(stdout) : stdout[k] = LineOf(opcodes[k].opcode, EntryAt(k))
    /\ pc = "TypeError" => i = FirstWithoutList /\ i <= Len(opcodes)
    /\ pc = "done" => i = Len(opcodes) + 1 /\ FirstWithoutList = i

C3_Witness ==
    /\ pc = "TypeError"
    /\ i = 2
    /\ "mnemonic" \notin DOMAIN EntryAt(1)
    /\ "cycles" \notin DOMAIN EntryAt(2)
    /\ Len(stdout) = 1

\* Every field of the entry and of its operands is present.
WellFormed(entry) == ~MissesAField(entry)

\* C4: when every entry is well-formed, at every point of the run the
\* emitted lines are the descriptors of the first entries of the table, in
\* table order, and when the run has ended there is one line per entry.
C4_OneLinePerEntryInOrder ==
    (\A k \in 1..Len(opcodes) : WellFormed(EntryAt(k))) =>
        /\ pc # "TypeError"
        /\ Len(stdout) <= Len(opcodes)
        /\ \A k \in 1..Len(stdout) : stdout[k] = LineOf(opcodes[k].opcode, EntryAt(k))
        /\ Len(stdout) = i - 1
        /\ pc = "done" => Len(stdout) = Len(opcodes)

C4_Witness ==
    /\ pc = "done"
    /\ Len(opcodes) = 2
    /\ \A k \in 1..Len(opcodes) : WellFormed(EntryAt(k))
    /\ EntryAt(1) # EntryAt(2)
    /\ Len(stdout) = 2
    /\ stdout[1] # stdout[2]
    /\ stdout[2] = Indent \o <<"r","s","t","_","0","8",":"," ","0","x","F","2",
                               " ","=",">"," ","\"","R","S","T"," ","$","0","8",
                               "\"",","," ","0",".","2","5",",">>

----------------------------------------------------------------------------
(* The descriptor of one entry.                                            *)

\* The tokens of the operands joined by ", ".
RECURSIVE CommaJoined(_)
CommaJoined(tokens) ==
    IF Len(tokens) = 1 THEN tokens[1]
    ELSE tokens[1] \o <<",", " ">> \o CommaJoined(Tail(tokens))

\* The mnemonic and every operand's name are present, so that every token
\* is a string.
HasItsNames(entry) ==
    /\ "mnemonic" \in DOMAIN entry
    /\ \A k \in 1..Len(entry.operands) : "name" \in DOMAIN entry.operands[k]

\* C5: for an entry with no operands assembly is the mnemonic exactly, with
\* no trailing space; for an entry with operands it is the mnemonic, one
\* space, and the rendered tokens joined by ", " in operand order.
C5_AssemblyText ==
    (Ran /\ HasItsNames(LastEntry)) =>
        IF LastOperands = <<>>
        THEN assembly = LastEntry.mnemonic
        ELSE /\ Len(rendered) = Len(LastOperands)
             /\ assembly = LastEntry.mnemonic \o <<" ">> \o CommaJoined(rendered)

C5_Witness ==
    /\ Ran
    /\ WellFormed(LastEntry)
    /\ LastOperands = <<>>
    /\ assembly = <<"L","D">>

UpperCaseLetters ==
    {"A","B","C","D","E","F","G","H","I","J","K","L","M",
     "N","O","P","Q","R","S","T","U","V","W","X","Y","Z"}

\* C6: testName holds no '$' and no uppercase letter, and lowercasing it
\* again leaves it as it is.
C6_TestNameLowercaseNoDollar ==
    Ran =>
        /\ \A k \in 1..Len(testName) : testName[k] \notin UpperCaseLetters \cup {"$"}
        /\ toLowerCase(testName) = testName

C6_Witness ==
    /\ Ran
    /\ "mnemonic" \in DOMAIN LastEntry
    /\ LastEntry.mnemonic = <<"J","$","p">>
    /\ Len(LastOperands) = 1
    /\ NameOf(LastOperands[1]) = <<"$","0","8">>
    /\ testName = <<"j","p","_","0","8">>

\* C7: machineCycles is cycles[0] / 4 exactly, neither rounded nor
\* truncated: 8 gives 2, 1 gives 0.25 (printed as 0.25), and the later
\* elements of cycles have no say.
C7_ExactQuarter ==
    (Ran /\ LastEntry.cycles # <<>>) =>
        /\ machine_cycles.den > 0
        /\ 4 * machine_cycles.num = LastEntry.cycles[1] * machine_cycles.den
        /\ LastEntry.cycles[1] = 8 => machine_cycles = [num |-> 2, den |-> 1]
        /\ LastEntry.cycles[1] = 1 =>
            /\ machine_cycles = [num |-> 1, den |-> 4]
            /\ LET line == stdout[Len(stdout)]
               IN  SubSeq(line, Len(line) - 5, Len(line)) = <<" ","0",".","2","5",",">>

C7_Witness ==
    /\ Ran
    /\ LastEntry.cycles = <<1, 8>>
    /\ machine_cycles = [num |-> 1, den |-> 4]

----------------------------------------------------------------------------
(* One operand.                                                            *)

Literal(name) ==
    CASE name \in WideNames -> <<"0","x","1","2","3","4">>
      [] name \in {<<"n","8">>, <<"a","8">>} -> <<"0","x","1","2">>
      [] name = <<"e","8">> -> <<"1","2","3">>

\* Where the bytes of operand k begin in machineCode.
ByteOffset(k) == 1 + Len(ExpectedCode(SubSeq(LastOperands, 1, k - 1)))

\* The operand is a placeholder with increment or decrement set.
SuffixedPlaceholder(k) ==
    /\ NameOf(LastOperands[k]) \in WideNames \cup ByteNames
    /\ IsSet(LastOperands[k], "increment") \/ IsSet(LastOperands[k], "decrement")

SuffixChar(operand) == IF IsSet(operand, "increment") THEN "+" ELSE "-"

SuffixWord(operand) ==
    IF IsSet(operand, "increment")
    THEN <<"_","i","n","c","r","e","m","e","n","t">>
    ELSE <<"_","d","e","c","r","e","m","e","n","t">>

\* Bytes and name part of a placeholder operand with a suffix.
BytesAndPart(k) ==
    LET operand == LastOperands[k]
        bytes == ExpectedBytes(operand)
    IN  /\ SubSeq(machineCode, ByteOffset(k) + 1, ByteOffset(k) + Len(bytes)) = bytes
        /\ testNames[k + 1] = operand.name \o SuffixWord(operand)

\* C8 as claimed: on a placeholder operand with increment or decrement set
\* the bytes are appended, the name part carries the suffix, and the
\* rendered token holds the substituted literal and the '+' or '-' as well.
C8_TokenKeepsSuffix ==
    Ran => \A k \in 1..Len(LastOperands) :
        SuffixedPlaceholder(k) =>
            /\ BytesAndPart(k)
            /\ Contains(rendered[k], Literal(LastOperands[k].name))
            /\ Contains(rendered[k], <<SuffixChar(LastOperands[k])>>)

\* C8 as the code has it: the bytes are appended and the name part carries
\* the suffix, but the substitution replaces value, so the rendered token
\* is the literal alone (in parentheses unless immediate) without the '+'
\* or '-'.
C8_TokenIsLiteralAlone ==
    Ran => \A k \in 1..Len(LastOperands) :
        SuffixedPlaceholder(k) =>
            /\ BytesAndPart(k)
            /\ rendered[k] \in {Literal(LastOperands[k].name),
                                <<"(">> \o Literal(LastOperands[k].name) \o <<")">>}
            /\ ~Contains(rendered[k], <<"+">>)
            /\ ~Contains(rendered[k], <<"-">>)

C8_Witness ==
    /\ Ran
    /\ Len(LastOperands) = 2
    /\ NameOf(LastOperands[1]) = <<"H","L">>
    /\ NameOf(LastOperands[2]) = <<"n","1","6">>
    /\ IsSet(LastOperands[2], "increment")
    /\ ~IsSet(LastOperands[2], "immediate")
    /\ rendered[2] = <<"(","0","x","1","2","3","4",")">>
    /\ testNames[3] = <<"n","1","6","_","i","n","c","r","e","m","e","n","t">>

\* What the parentheses of an indirect operand enclose.
Inner(operand) ==
    IF NameOf(operand) \in WideNames \cup ByteNames THEN Literal(operand.name)
    ELSE IF IsSet(operand, "increment") THEN operand.name \o <<"+">>
    ELSE IF IsSet(operand, "decrement") THEN operand.name \o <<"-">>
    ELSE operand.name

LdHlN8 ==
    /\ "mnemonic" \in DOMAIN LastEntry
    /\ LastEntry.mnemonic = <<"L","D">>
    /\ LastOperands =
        << [name |-> <<"H","L">>, immediate |-> FALSE, increment |-> FALSE, decrement |-> FALSE],
           [name |-> <<"n","8">>, immediate |-> TRUE] >>
    /\ LastEntry.cycles = <<8>>

\* C9: a rendered token is in one pair of parentheses exactly when the
\* operand's immediate is not true, and the parentheses enclose the value
\* after substitution: a16 not immediate renders as (0x1234) and appends
\* 0x34 0x12; LD with HL not immediate, n8 immediate and cycles [8] gives
\* "LD (HL), 0x12" with the bytes opcode key, 0x12.
C9_ParenthesesIffNotImmediate ==
    Ran =>
        /\ \A k \in 1..Len(LastOperands) :
            LET operand == LastOperands[k]
                token == rendered[k]
            IN  /\ IsSet(operand, "immediate") =>
                    /\ Occurrences(token, "(") = 0
                    /\ Occurrences(token, ")") = 0
                    /\ "name" \in DOMAIN operand => token = Inner(operand)
                /\ ~IsSet(operand, "immediate") =>
                    /\ Occurrences(token, "(") = 1
                    /\ Occurrences(token, ")") = 1
                    /\ token[1] = "("
                    /\ token[Len(token)] = ")"
                    /\ "name" \in DOMAIN operand =>
                        SubSeq(token, 2, Len(token) - 1) = Inner(operand)
                /\ (NameOf(operand) = <<"a","1","6">> /\ ~IsSet(operand, "immediate")) =>
                    /\ token = <<"(","0","x","1","2","3","4",")">>
                    /\ SubSeq(machineCode, ByteOffset(k) + 1, ByteOffset(k) + 2)
                        = << <<"0","x","3","4">>, <<"0","x","1","2">> >>
        /\ LdHlN8 =>
            /\ assembly = <<"L","D"," ","(","H","L",")",","," ","0","x","1","2">>
            /\ machineCode = <<LastOpcode, <<"0","x","1","2">> >>
            /\ machine_cycles = [num |-> 2, den |-> 1]

C9_Witness ==
    /\ Ran
    /\ LdHlN8
    /\ rendered = << <<"(","H","L",")">>, <<"0","x","1","2">> >>

\* The part an operand with a name adds to the test-name parts.
ExpectedPart(operand) ==
    IF IsSet(operand, "increment")
    THEN operand.name \o <<"_","i","n","c","r","e","m","e","n","t">>
    ELSE IF IsSet(operand, "decrement")
    THEN operand.name \o <<"_","d","e","c","r","e","m","e","n","t">>
    ELSE operand.name

\* C10: the test-name parts are the mnemonic and then one part per operand
\* in operand order: name_increment when increment is set (also when
\* decrement is set too, and then the token gets only the '+'), otherwise
\* name_decrement when decrement is set, otherwise the name; HL immediate
\* with increment renders as HL+ and puts hl_increment in testName.
C10_OnePartPerOperand ==
    Ran =>
        /\ Len(testNames) = 1 + Len(LastOperands)
        /\ "mnemonic" \in DOMAIN LastEntry => testNames[1] = LastEntry.mnemonic
        /\ \A k \in 1..Len(LastOperands) :
            LET operand == LastOperands[k]
            IN  "name" \in DOMAIN operand =>
                    /\ testNames[k + 1] = ExpectedPart(operand)
                    /\ (operand.name = <<"H","L">> /\ IsSet(operand, "increment")) =>
                        /\ Contains(rendered[k], <<"H","L","+">>)
                        /\ ~Contains(rendered[k], <<"-">>)
                        /\ IsSet(operand, "immediate") => rendered[k] = <<"H","L","+">>
                        /\ Contains(testName,
                                    <<"_","h","l","_","i","n","c","r","e","m","e","n","t">>)

C10_Witness ==
    /\ Ran
    /\ Len(LastOperands) = 2
    /\ LastOperands[2] =
        [name |-> <<"H","L">>, immediate |-> TRUE, increment |-> TRUE, decrement |-> TRUE]
    /\ rendered[2] = <<"H","L","+">>
    /\ testNames[3] = <<"H","L","_","i","n","c","r","e","m","e","n","t">>

====
